---- MODULE Spec2Model ----
(***************************************************************************)
(* Destination-adapter lifecycle and transport engine of mixpanel-dwh.     *)
(*                                                                         *)
(* The warehouse adapter (middleware/snowflake.js) keeps its state in      *)
(* module-level variables; every call of main / main.init is an async      *)
(* function that is suspended at each await.  A call is modelled as a      *)
(* frame whose pc names the await it is suspended at; one action resumes   *)
(* the frame and runs the synchronous code up to the next await.           *)
(***************************************************************************)
EXTENDS Integers, Sequences, FiniteSets, TLC

\* ---------------------------------------------------------------- bounds
NumProcs == 2
MaxBatch == 2

\* ------------------------------------------------------ program constants
MAX_RETRIES == 5
\* the default arguments of waitForTableToBeReady
retries == 20
maxInsertAttempts == 20

Procs == 1..NumProcs
ValidTypes == {"track", "engage", "groups"}
RecordTypes == ValidTypes \cup {"other"}
Responses == {"ok", "locked", "error"}

VARIABLES
    env,      \* process.env: which optional names / credentials are set
    adapter,  \* the module-level lets of snowflake.js
    wh,       \* the warehouse: which durable resources exist
    frames,   \* one frame per call in flight
    obs,      \* per call: what the call has done so far (history)
    hist,     \* process-wide history
    s3,       \* the module-level lets of the object-store adapter
    shape,    \* one run of the payload shaper: its arguments and its result
    logger    \* the module-level lets of the logger

vars == <<env, adapter, wh, frames, obs, hist, s3, shape, logger>>

\* ------------------------------------------------------------- helpers
\* the logger when its module has been loaded; last is the message of the
\* latest log call and pushed the number of entries appended so far
FreshLogger ==
    [logBuffer |-> <<>>, verbose |-> FALSE, cli_mode |-> FALSE,
     logging |-> TRUE, last |-> "none", pushed |-> 0]

\* no batch has been handed to the payload shaper
NoShape == [input |-> <<>>, batch |-> <<>>, schema |-> <<>>, data |-> <<>>,
            shaped |-> 0]

every(list) == \A i \in 1..Len(list) : list[i]

NoResult ==
    [kind |-> "none", status |-> "born", insertedRows |-> 0, failedRows |-> 0,
     errorMessage |-> "", method |-> "none"]

IdleFrame ==
    [pc |-> "idle", op |-> "init", batchLen |-> 0,
     result |-> <<>>, insertMethod |-> "none", attempt |-> 0,
     out |-> NoResult, localFile |-> FALSE, staged |-> FALSE]

NoObs ==
    [touched |-> FALSE, created |-> FALSE, wrote |-> FALSE, calls |-> 0,
     locks |-> 0, fatals |-> 0, sawLock |-> FALSE, last |-> "none",
     lastError |-> "", quiet |-> FALSE, bound |-> "none", removeTried |-> FALSE,
     exists |-> FALSE, answer |-> "none", tried |-> {}]

\* the arguments (data, type) of a main call; main reads them only after
\* initializeSnowflake has returned, and they are drawn where it reads them
Args == [type : RecordTypes, batchLen : 0..MaxBatch]

\* the state one resumed call works on
Cur(p, args) ==
    [adapter |-> adapter, wh |-> wh, frame |-> frames[p], obs |-> obs[p],
     hist |-> hist, args |-> args, s3 |-> s3]

Commit(p, s) ==
    /\ adapter' = s.adapter
    /\ wh' = s.wh
    /\ frames' = [frames EXCEPT ![p] = s.frame]
    /\ obs' = [obs EXCEPT ![p] = s.obs]
    /\ hist' = s.hist
    /\ s3' = s.s3
    /\ UNCHANGED <<env, shape, logger>>

\* executeSQL: how a backend response reaches the caller
executeSQL(resp, neverThrow) ==
    IF resp = "ok" THEN [kind |-> "resolve", message |-> ""]
    ELSE IF neverThrow THEN [kind |-> "resolve", message |-> "err"]
    ELSE IF resp = "locked" THEN [kind |-> "reject", message |-> "TableLockedError"]
    ELSE [kind |-> "reject", message |-> "SqlError"]

\* ------------------------------------------------------------ outcomes
Success(n, len, method) ==
    [kind |-> "returned", status |-> "success", insertedRows |-> n,
     failedRows |-> len - n, errorMessage |-> "", method |-> method]

ErrorResult(len, msg) ==
    [kind |-> "returned", status |-> "error", insertedRows |-> 0,
     failedRows |-> len, errorMessage |-> msg, method |-> "none"]

Thrown(msg) ==
    [kind |-> "thrown", status |-> "error", insertedRows |-> 0,
     failedRows |-> 0, errorMessage |-> msg, method |-> "none"]

\* main, lines 134-137: the engine's result is stamped and returned
mainReturn(s, res) ==
    [s EXCEPT !.frame.pc = "done", !.frame.out = res]

\* a throw that leaves main (or main.init) through initializeSnowflake
initThrow(s, msg) ==
    [s EXCEPT !.frame.pc = "done", !.frame.out = Thrown(msg),
              !.hist.lastAllTrue = FALSE]

\* a throw of main itself, after initializeSnowflake returned
mainThrow(s, msg) ==
    [s EXCEPT !.frame.pc = "done", !.frame.out = Thrown(msg)]

\* --------------------------------------------------------- Retry Engine
\* an engine that gives up on the first failure of any kind
insertWithRetry_GiveUp(s, o) ==
    IF o.kind = "returned" THEN mainReturn(s, o)
    ELSE mainReturn(s, ErrorResult(s.frame.batchLen, o.errorMessage))

\* an engine that repeats an attempt whatever it threw
insertWithRetry_RetryAll(s, o) ==
    IF o.kind = "returned" THEN mainReturn(s, o)
    ELSE IF s.frame.attempt < MAX_RETRIES
         THEN [s EXCEPT !.frame.pc = "backoff"]
         ELSE mainReturn(s, ErrorResult(s.frame.batchLen, o.errorMessage))

\* an engine that allows one attempt too many
insertWithRetry_OffByOne(s, o) ==
    IF o.kind = "returned" THEN mainReturn(s, o)
    ELSE IF o.errorMessage = "TableLockedError" /\ s.frame.attempt <= MAX_RETRIES
         THEN [s EXCEPT !.frame.pc = "backoff"]
         ELSE mainReturn(s, ErrorResult(s.frame.batchLen, o.errorMessage))

\* insertWithRetry (components/retries.js), by its contract: an attempt that
\* throws a recoverable-contention error is repeated after a backoff while
\* attempts remain; every other outcome ends the invocation.
insertWithRetry(s, o) ==
    IF o.kind = "returned" THEN mainReturn(s, o)
    ELSE IF o.errorMessage = "TableLockedError" /\ s.frame.attempt < MAX_RETRIES
         THEN [s EXCEPT !.frame.pc = "backoff"]
         ELSE mainReturn(s, ErrorResult(s.frame.batchLen, o.errorMessage))

\* the end of one strategy call, as the engine sees it
strategyEnd(s, o) ==
    LET tag == IF o.kind = "returned"
               THEN (IF o.status = "success" THEN "ok" ELSE "errorResult")
               ELSE (IF o.errorMessage = "TableLockedError" THEN "locked" ELSE "fatal")
        s1 == [s EXCEPT !.obs.last = tag,
                        !.obs.lastError = o.errorMessage,
                        !.obs.locks = @ + (IF tag = "locked" THEN 1 ELSE 0),
                        !.obs.fatals = @ + (IF tag = "fatal" THEN 1 ELSE 0)]
    IN insertWithRetry(s1, o)

\* ------------------------------------------------------ Write Strategies
\* a strategy returns or throws: to the engine when main invoked it through
\* the engine, else to the code that called it
strategyReturn(s, o) ==
    IF s.frame.op = "strategy"
    THEN [s EXCEPT !.frame.pc = "done", !.frame.out = o]
    ELSE strategyEnd(s, o)

\* the synchronous prefix of a strategy, up to its first backend call
strategyStart(s) ==
    LET s1 == [s EXCEPT !.obs.calls = @ + 1, !.obs.wrote = TRUE,
                        !.obs.removeTried = FALSE, !.frame.staged = FALSE]
    IN CASE s.frame.insertMethod = "insertData" ->
              [s1 EXCEPT !.frame.pc = "insert"]
         [] s.frame.insertMethod = "copyIntoData" ->
              [s1 EXCEPT !.frame.pc = "copy_put", !.frame.localFile = TRUE]
         [] s.frame.insertMethod = "insertWithPipe" ->
              [s1 EXCEPT !.frame.pc = "pipe_put", !.frame.localFile = TRUE]
         [] OTHER ->
              [s1 EXCEPT !.frame.pc = "put_put", !.frame.localFile = TRUE]

sawResponse(s, r) ==
    [s EXCEPT !.obs.sawLock = @ \/ (r = "locked")]

\* the rows of a write that the backend accepted are in the table
written(s, n) ==
    [s EXCEPT !.wh.rows = @ \/ (s.wh.tables /\ n > 0)]

\* insertData, line 571: task?.[0]?.['number of rows inserted'] || 0, where
\* task is the list of rows the statement resolved with
rowsInserted(task) == IF Len(task) = 0 THEN 0 ELSE task[1]

\* an insertData that reports no failed row when the statement resolved
insertData_NoFailedRows(s, r, task) ==
    LET x == executeSQL(r, FALSE)
        len == s.frame.batchLen
    IN IF x.kind = "resolve"
       THEN strategyReturn(sawResponse(s, r),
                           [Success(rowsInserted(task), len, s.adapter.transport)
                              EXCEPT !.failedRows = 0])
       ELSE strategyReturn(sawResponse(s, r), ErrorResult(len, x.message))

\* an insertData that lets the failure of the statement escape
insertData_Rethrow(s, r, task) ==
    LET x == executeSQL(r, FALSE)
        len == s.frame.batchLen
    IN IF x.kind = "resolve"
       THEN strategyReturn(sawResponse(s, r),
                           Success(rowsInserted(task), len, s.adapter.transport))
       ELSE strategyReturn(sawResponse(s, r), Thrown(x.message))

\* insertData, lines 566-583: the INSERT statement completes
insertData(s, r, task) ==
    LET x == executeSQL(r, FALSE)
        len == s.frame.batchLen
    IN IF x.kind = "resolve"
       THEN strategyReturn(written(sawResponse(s, r), rowsInserted(task)),
                           Success(rowsInserted(task), len, s.adapter.transport))
       ELSE strategyReturn(sawResponse(s, r), ErrorResult(len, x.message))

\* a copyIntoData that reports a failed upload as an error result
copyPut_ReturnError(s, r) ==
    LET x == executeSQL(r, FALSE)
    IN IF x.kind = "resolve"
       THEN [sawResponse(s, r) EXCEPT !.frame.pc = "copy_load", !.frame.staged = TRUE]
       ELSE strategyReturn(sawResponse(s, r),
                           ErrorResult(s.frame.batchLen, x.message))

\* copyIntoData, lines 609-615: the PUT completes
copyPut(s, r) ==
    LET x == executeSQL(r, FALSE)
    IN IF x.kind = "resolve"
       THEN [sawResponse(s, r) EXCEPT !.frame.pc = "copy_load", !.frame.staged = TRUE]
       ELSE strategyReturn(sawResponse(s, r), Thrown(x.message))

\* a copyIntoData whose failed load leaves the local file behind
copyLoad_KeepFile(s, r) ==
    LET x == executeSQL(r, FALSE)
    IN IF x.kind = "resolve"
       THEN [sawResponse(s, r) EXCEPT
                !.frame.pc = "copy_remove",
                !.obs.removeTried = TRUE,
                !.frame.out = Success(s.frame.batchLen, s.frame.batchLen,
                                      s.adapter.transport)]
       ELSE strategyReturn(sawResponse(s, r), Thrown(x.message))

\* copyIntoData, lines 632-647: the COPY INTO completes
copyLoad(s, r) ==
    LET x == executeSQL(r, FALSE)
    IN IF x.kind = "resolve"
       THEN [written(sawResponse(s, r), s.frame.batchLen) EXCEPT
                !.frame.pc = "copy_remove",
                !.obs.removeTried = TRUE,
                !.frame.out = Success(s.frame.batchLen, s.frame.batchLen,
                                      s.adapter.transport)]
       ELSE strategyReturn([sawResponse(s, r) EXCEPT !.frame.localFile = FALSE],
                        Thrown(x.message))

\* copyIntoData, lines 637-650: the REMOVE completes
copyRemove(s, r) ==
    LET x == executeSQL(r, FALSE)
        s1 == [sawResponse(s, r) EXCEPT !.frame.localFile = FALSE]
    IN IF x.kind = "resolve"
       THEN strategyReturn([s1 EXCEPT !.frame.staged = FALSE], s.frame.out)
       ELSE strategyReturn(s1, Thrown(x.message))

\* insertWithPipe, lines 678-684: the PUT completes
pipePut(s, r) ==
    LET x == executeSQL(r, FALSE)
    IN IF x.kind = "resolve"
       THEN [sawResponse(s, r) EXCEPT !.frame.pc = "pipe_notify", !.frame.staged = TRUE]
       ELSE strategyReturn(sawResponse(s, r), Thrown(x.message))

\* an insertWithPipe that removes the staged file once the pipe is notified
pipeNotify_Remove(s, ok) ==
    LET s1 == [s EXCEPT !.frame.localFile = FALSE]
    IN IF ok /\ s.adapter.snowpipeAPI
       THEN strategyReturn([s1 EXCEPT !.frame.staged = FALSE],
                           Success(s.frame.batchLen, s.frame.batchLen, s.adapter.transport))
       ELSE strategyReturn(s1, Thrown("SnowpipeError"))

\* insertWithPipe, lines 688-710: snowpipeAPI.insertFile completes
pipeNotify(s, ok) ==
    LET s1 == [s EXCEPT !.frame.localFile = FALSE]
    IN IF ok /\ s.adapter.snowpipeAPI
       THEN strategyReturn(s1, Success(s.frame.batchLen, s.frame.batchLen, s.adapter.transport))
       ELSE strategyReturn(s1, Thrown("SnowpipeError"))

\* insertWithPut, lines 738-748: the PUT completes
putPut(s, r) ==
    LET x == executeSQL(r, FALSE)
    IN IF x.kind = "resolve"
       THEN strategyReturn(
              [sawResponse(s, r) EXCEPT !.frame.staged = TRUE,
                                        !.frame.localFile = FALSE],
              Success(s.frame.batchLen, s.frame.batchLen, s.adapter.transport))
       ELSE strategyReturn(sawResponse(s, r), Thrown(x.message))

\* the engine's next attempt after its backoff
retryAgain(s) ==
    strategyStart([s EXCEPT !.frame.attempt = @ + 1])

\* ------------------------------------------------------- Adapter Facade
insertMethodOf(transport) ==
    CASE transport = "insert" -> "insertData"
      [] transport = "copy" -> "copyIntoData"
      [] transport = "pipe" -> "insertWithPipe"
      [] transport = "task" -> "insertWithPut"
      [] OTHER -> "none"

\* main, lines 95-134: what main does once initializeSnowflake has returned
mainAfterInit(s) ==
    IF ~every(s.frame.result)
    THEN mainThrow(s, "Failed to initialize Snowflake middleware.")
    ELSE IF s.args.type \notin ValidTypes
    THEN mainThrow(s, "Invalid Record Type")
    ELSE IF insertMethodOf(s.adapter.transport) = "none"
    THEN mainThrow(s, "Invalid transport method")
    ELSE strategyStart(
           [s EXCEPT !.frame.insertMethod = insertMethodOf(s.adapter.transport),
                     !.frame.batchLen = s.args.batchLen,
                     !.frame.attempt = 1,
                     !.obs.bound = s.adapter.transport,
                     !.hist.firstBound =
                         IF @ = "none" THEN s.adapter.transport ELSE @])

\* --------------------------------------------- Resource Lifecycle Manager
\* initializeSnowflake, lines 250-251
initReturn(s) ==
    LET s1 == [s EXCEPT !.hist.lastAllTrue = every(s.frame.result)]
    IN IF s.frame.op = "init"
       THEN [s1 EXCEPT !.frame.pc = "done",
                       !.frame.out = [NoResult EXCEPT !.kind = "returned",
                                                      !.status = "list"]]
       ELSE mainAfterInit(s1)

\* initializeSnowflake, lines 221-225
fromSnowPipe(s) ==
    IF ~s.adapter.isSnowPipeReady
    THEN [s EXCEPT !.frame.pc = "snowpipe", !.obs.touched = TRUE,
                   !.obs.created = TRUE]
    ELSE initReturn(s)

\* initializeSnowflake, lines 213-226
fromPipe(s) ==
    IF env.snowflake_pipe
    THEN IF ~s.adapter.isPipeReady
         THEN [s EXCEPT !.frame.pc = "pipe", !.obs.touched = TRUE]
         ELSE fromSnowPipe(s)
    ELSE initReturn(s)

\* initializeSnowflake, lines 202-210
fromStage(s) ==
    IF env.snowflake_stage /\ ~s.adapter.isStageReady
    THEN [s EXCEPT !.frame.pc = "stage", !.obs.touched = TRUE]
    ELSE fromPipe(s)

\* initializeSnowflake, line 199
fromResult(s) ==
    fromStage([s EXCEPT !.frame.result =
        <<s.adapter.isConnectionReady, s.adapter.isDatasetReady,
          s.adapter.areTablesReady>>])

\* initializeSnowflake, lines 191-192
fromTables(s) ==
    IF ~s.adapter.areTablesReady
    THEN [s EXCEPT !.frame.pc = "tables", !.obs.touched = TRUE]
    ELSE fromResult(s)

\* initializeSnowflake, lines 184-185
fromDataset(s) ==
    IF ~s.adapter.isDatasetReady
    THEN [s EXCEPT !.frame.pc = "dataset", !.obs.touched = TRUE]
    ELSE fromTables(s)

\* an initializeSnowflake that connects on every call
fromConnection_Always(s) ==
    IF ~env.credentials
    THEN initThrow(s, "credential is required")
    ELSE [s EXCEPT !.frame.pc = "connect", !.obs.touched = TRUE,
                   !.obs.created = TRUE]

\* a createSnowflakeConnection that connects without looking at the
\* credential fields
fromConnection_NoCheck(s) ==
    IF ~s.adapter.isConnectionReady
    THEN [s EXCEPT !.frame.pc = "connect", !.obs.touched = TRUE,
                   !.obs.created = TRUE]
    ELSE fromDataset(s)

\* initializeSnowflake, lines 175-176, and createSnowflakeConnection up to
\* the connect call
fromConnection(s) ==
    IF ~s.adapter.isConnectionReady
    THEN IF ~env.credentials
         THEN initThrow(s, "credential is required")
         ELSE [s EXCEPT !.frame.pc = "connect", !.obs.touched = TRUE,
                        !.obs.created = TRUE]
    ELSE fromDataset(s)

\* createSnowflakeConnection, lines 297-307, and initializeSnowflake,
\* lines 176-178: the connect callback fires
connectDone(s, ok) ==
    IF ok
    THEN [s EXCEPT !.adapter.connection = TRUE,
                   !.adapter.isConnectionReady = TRUE,
                   !.frame.pc = "isValid"]
    ELSE initThrow([s EXCEPT !.adapter.isConnectionReady = FALSE],
                   "snowflake credentials verification failed.")

\* initializeSnowflake, lines 178-179: connection.isValidAsync() completes
isValidDone(s, valid) ==
    [s EXCEPT !.adapter.isConnectionReady = valid, !.frame.pc = "getUser"]

\* an initializeSnowflake that goes on after a failed liveness check
getUserDone_GoOn(s) ==
    fromDataset(s)

\* initializeSnowflake, lines 179-182: getCurrentUser() completes
getUserDone(s) ==
    IF ~s.adapter.isConnectionReady
    THEN initThrow(s, "snowflake connection is in an invalid state.")
    ELSE fromDataset(s)

\* verifyOrCreateDatabase, lines 322-333: the existence query has resolved;
\* chk is what it resolved with: a count above 0, the does-not-exist error,
\* or anything else
datasetChecked(s, chk) ==
    LET databaseExists == (chk = "count")
    IN IF ~databaseExists
       THEN [s EXCEPT !.frame.pc = "dataset_createDb"]
       ELSE [s EXCEPT !.frame.pc = "dataset_schemas"]

\* verifyOrCreateDatabase, lines 336-347: CREATE OR REPLACE DATABASE completes;
\* a replaced database holds nothing
databaseCreated(s, r) ==
    IF executeSQL(r, FALSE).kind = "reject"
    THEN initThrow(s, "dataset statement failed")
    ELSE [s EXCEPT !.wh = [db |-> TRUE, schema |-> FALSE, tables |-> FALSE,
                           stage |-> FALSE, pipes |-> FALSE, rows |-> FALSE],
                   !.obs.created = TRUE,
                   !.frame.pc = "dataset_schemas"]

\* verifyOrCreateDatabase, lines 347-364: SHOW SCHEMAS has resolved, with the
\* schemas of the database or with an error
schemasListed(s, isArray) ==
    LET schemaExists == s.wh.schema
    IN IF ~isArray
       THEN initThrow(s, "Failed to check schema existence")
       ELSE IF ~schemaExists
       THEN [s EXCEPT !.frame.pc = "dataset_createSchema"]
       ELSE [s EXCEPT !.frame.pc = "dataset_use"]

\* verifyOrCreateDatabase, lines 354-364: CREATE SCHEMA completes
schemaCreated(s, r) ==
    IF executeSQL(r, FALSE).kind = "reject"
    THEN initThrow(s, "dataset statement failed")
    ELSE [s EXCEPT !.wh.schema = TRUE, !.obs.created = TRUE,
                   !.frame.pc = "dataset_use"]

\* verifyOrCreateDatabase, lines 364-368, and initializeSnowflake, lines
\* 185-188: USE SCHEMA completes
datasetDone(s, r) ==
    IF executeSQL(r, FALSE).kind = "reject"
    THEN initThrow(s, "dataset statement failed")
    ELSE fromTables([s EXCEPT !.adapter.isDatasetReady = TRUE])

\* checkIfTableExists, lines 459-470, on what SHOW TABLES resolved with
checkIfTableExists(result) == result = "rows"

\* verifyOrCreateTables, lines 375-391: the existence checks have resolved
tablesChecked(s, result) ==
    IF result = "reject"
    THEN initThrow(s, "table statement failed")
    ELSE IF ~checkIfTableExists(result)
    THEN [s EXCEPT !.frame.pc = "tables_create"]
    ELSE [s EXCEPT !.frame.pc = "tables_probe"]

\* createTable, lines 472-476, and verifyOrCreateTables, lines 380-381:
\* CREATE OR REPLACE TABLE completes; a replaced table holds no rows
tableCreated(s, r) ==
    IF executeSQL(r, FALSE).kind = "reject"
    THEN initThrow(s, "table statement failed")
    ELSE [s EXCEPT !.wh.tables = TRUE, !.wh.rows = FALSE,
                   !.obs.created = TRUE,
                   !.frame.pc = "tables_probe"]

\* initializeSnowflake, line 194: the message of the table failure
TablesFailed == "Table verification or creation failed."

\* an initializeSnowflake that assigns the transport before it looks at the
\* outcome of the table step
tablesDone_Assign(s, r) ==
    IF r = "throw"
    THEN initThrow(s, "table statement failed")
    ELSE IF r # "ready"
    THEN initThrow([s EXCEPT !.adapter.areTablesReady = FALSE,
                             !.adapter.transport = "insert"],
                   TablesFailed)
    ELSE fromResult([s EXCEPT !.adapter.areTablesReady = TRUE,
                              !.adapter.transport = "insert"])

\* an initializeSnowflake that leaves the transport as it is when the
\* tables are ready
tablesDone_NoTransport(s, r) ==
    IF r = "throw"
    THEN initThrow(s, "table statement failed")
    ELSE IF r # "ready"
    THEN initThrow([s EXCEPT !.adapter.areTablesReady = FALSE],
                   TablesFailed)
    ELSE fromResult([s EXCEPT !.adapter.areTablesReady = TRUE])

\* verifyOrCreateTables, lines 381-400, and initializeSnowflake, lines
\* 192-197: the readiness probes have come to r
tablesDone(s, r) ==
    IF r = "throw"
    THEN initThrow(s, "table statement failed")
    ELSE IF r # "ready"
    THEN initThrow([s EXCEPT !.adapter.areTablesReady = FALSE],
                   TablesFailed)
    ELSE fromResult([s EXCEPT !.adapter.areTablesReady = TRUE,
                              !.adapter.transport = "insert"])

\* verifyOrCreateStage, lines 403-423
verifyOrCreateStage(s, fail) ==
    IF fail = "show" \/ (fail = "create" /\ ~s.wh.stage)
    THEN [threw |-> TRUE, s |-> s]
    ELSE [threw |-> FALSE,
          s |-> [s EXCEPT !.wh.stage = TRUE,
                          !.obs.created = @ \/ ~s.wh.stage]]

\* an initializeSnowflake whose stage block selects the task transport
stageDone_Task(s, fail) ==
    LET v == verifyOrCreateStage(s, fail)
    IN IF v.threw
       THEN initThrow(v.s, "stage statement failed")
       ELSE fromPipe([v.s EXCEPT !.adapter.isStageReady = TRUE,
                                 !.frame.result = Append(@, TRUE),
                                 !.adapter.transport = "task"])

\* initializeSnowflake, lines 204-207
stageDone(s, fail) ==
    LET v == verifyOrCreateStage(s, fail)
    IN IF v.threw
       THEN initThrow(v.s, "stage statement failed")
       ELSE fromPipe([v.s EXCEPT !.adapter.isStageReady = TRUE,
                                 !.frame.result = Append(@, TRUE),
                                 !.adapter.transport = "copy"])

\* verifyOrCreatePipe, lines 425-457
verifyOrCreatePipe(s, fail) ==
    IF fail = "show" \/ (fail = "create" /\ ~s.wh.pipes)
    THEN [threw |-> TRUE, s |-> s]
    ELSE [threw |-> FALSE,
          s |-> [s EXCEPT !.wh.pipes = TRUE,
                          !.obs.created = @ \/ ~s.wh.pipes]]

\* initializeSnowflake, lines 215-218
pipeDone(s, fail) ==
    LET v == verifyOrCreatePipe(s, fail)
    IN IF v.threw
       THEN initThrow(v.s, "pipe statement failed")
       ELSE fromSnowPipe([v.s EXCEPT !.adapter.isPipeReady = TRUE,
                                     !.frame.result = Append(@, TRUE),
                                     !.adapter.transport = "pipe"])

\* an initializeSnowflake that keeps the outcome of the client creation out
\* of the list it returns
snowPipeDone_NoPush(s, ok) ==
    initReturn([s EXCEPT !.adapter.snowpipeAPI = @ \/ ok,
                         !.adapter.isSnowPipeReady = ok])

\* createSnowpipeConnection, lines 255-271, and initializeSnowflake,
\* lines 222-223
snowPipeDone(s, ok) ==
    initReturn([s EXCEPT !.adapter.snowpipeAPI = @ \/ ok,
                         !.adapter.isSnowPipeReady = ok,
                         !.frame.result = Append(@, ok)])

\* ------------------------------------------------------------------ drop
\* the statements of one table's chain, in the order dropTables issues them
DropOrder == <<"table", "pipe", "task">>

\* chain[k] is the statement of table k that is rejected, or "none"
Chains == [ValidTypes -> {"none", "table", "pipe", "task"}]

\* how many statements the chain of a table issues
issued(fail) ==
    CASE fail = "table" -> 1 [] fail = "pipe" -> 2 [] OTHER -> 3

\* how many of them succeed
succeeded(fail) ==
    CASE fail = "table" -> 0 [] fail = "pipe" -> 1 [] fail = "task" -> 2
      [] OTHER -> 3

AllResources ==
    {<<k, res>> : k \in ValidTypes, res \in {"table", "pipe", "task"}}
        \cup {<<"shared", "stage">>}

\* dropTables, lines 994-1013: the chains are started; executeSQL needs the
\* connection
dropTables(s) ==
    IF ~s.adapter.connection
    THEN mainThrow(s, "TypeError")
    ELSE [s EXCEPT !.frame.pc = "drop_tables"]

\* dropTables, lines 996-1013: every chain has settled.  A chain stops at
\* its first rejected statement, the others run on; Promise.all rejects when
\* one chain does, and then the stage statement is not issued.
chainsSettled(s, chain) ==
    LET s1 == [s EXCEPT
                 !.obs.tried = {x \in AllResources :
                                  /\ x[1] \in ValidTypes
                                  /\ \E i \in 1..issued(chain[x[1]]) :
                                       DropOrder[i] = x[2]},
                 !.wh.tables = @ /\ \A k \in ValidTypes : succeeded(chain[k]) < 1,
                 !.wh.rows = @ /\ \A k \in ValidTypes : succeeded(chain[k]) < 1,
                 !.wh.pipes = @ /\ \A k \in ValidTypes : succeeded(chain[k]) < 2,
                 !.hist.dropped = @ \/ \E k \in ValidTypes : succeeded(chain[k]) >= 1]
    IN IF \E k \in ValidTypes : chain[k] # "none"
       THEN mainThrow(s1, "SqlError")
       ELSE [s1 EXCEPT !.frame.pc = "drop_stage",
                       !.obs.tried = @ \cup {<<"shared", "stage">>}]

\* a dropTables that forgets what the adapter has set up
stageDropped_ResetFlags(s, r) ==
    LET x == executeSQL(r, FALSE)
    IN IF x.kind = "resolve"
       THEN [s EXCEPT !.wh.stage = FALSE, !.hist.dropped = TRUE,
                      !.adapter.areTablesReady = FALSE,
                      !.adapter.isStageReady = FALSE,
                      !.adapter.isPipeReady = FALSE,
                      !.frame.pc = "done",
                      !.frame.out = [NoResult EXCEPT !.kind = "returned",
                                                     !.status = "summary"]]
       ELSE mainThrow(s, x.message)

\* dropTables, lines 1016-1020: the DROP STAGE completes
stageDropped(s, r) ==
    LET x == executeSQL(r, FALSE)
    IN IF x.kind = "resolve"
       THEN [s EXCEPT !.wh.stage = FALSE, !.hist.dropped = TRUE,
                      !.frame.pc = "done",
                      !.frame.out = [NoResult EXCEPT !.kind = "returned",
                                                     !.status = "summary"]]
       ELSE mainThrow(s, x.message)

\* ------------------------------------------------- Table readiness probe
\* what the dummy INSERT may resolve with under neverThrow: the rows of a
\* statement that succeeded, an error without data, or an error with data
DummyAnswers ==
    [shape : {"rows", "errNoData", "err"}, code : {"000904", "002003"},
     errorCode : {"000904", "002003"}, sqlState : {"42000", "42S02"},
     type : {"COMPILATION", "EXECUTION"}]

\* an insertDummyRecord that does not look at sqlState
insertDummyRecord_AnyState(ans) ==
    IF ans.shape # "err" THEN "throw"
    ELSE IF ans.code # "000904" THEN "false"
    ELSE IF ans.errorCode # "000904" THEN "false"
    ELSE IF ans.type # "COMPILATION" THEN "false"
    ELSE "true"

\* insertDummyRecord, lines 478-492: its return value, or "throw" when the
\* destructuring of a missing data field raises a TypeError
insertDummyRecord(ans) ==
    IF ans.shape # "err" THEN "throw"
    ELSE IF ans.code # "000904" THEN "false"
    ELSE IF ans.errorCode # "000904" THEN "false"
    ELSE IF ans.sqlState # "42000" THEN "false"
    ELSE IF ans.type # "COMPILATION" THEN "false"
    ELSE "true"

\* waitForTableToBeReady returns
probeReturn(s, ready) ==
    [s EXCEPT !.frame.pc = "done",
              !.frame.out = [NoResult EXCEPT
                               !.kind = "returned",
                               !.status = IF ready THEN "true" ELSE "false"]]

\* waitForTableToBeReady, lines 497-498: the first existence check is issued
probeStart(s) ==
    [s EXCEPT !.frame.pc = "probe_exists", !.frame.attempt = 0]

\* waitForTableToBeReady, lines 514-517: a dummy insert is issued
probeInsert(s, insertAttempt) ==
    [s EXCEPT !.frame.pc = "probe_insert", !.frame.attempt = insertAttempt,
              !.obs.calls = @ + 1]

\* waitForTableToBeReady, lines 498-505: SHOW TABLES completes
existsChecked(s, result) ==
    IF result = "reject" THEN mainThrow(s, "SqlError")
    ELSE IF checkIfTableExists(result)
    THEN probeInsert([s EXCEPT !.obs.exists = TRUE], 0)
    ELSE [s EXCEPT !.frame.pc = "probe_sleep"]

\* waitForTableToBeReady, lines 505-511: the sleep of the existence loop ends
existenceSlept(s) ==
    IF s.frame.attempt = retries - 1
    THEN probeReturn(s, FALSE)
    ELSE [s EXCEPT !.frame.pc = "probe_exists", !.frame.attempt = @ + 1]

\* waitForTableToBeReady, lines 517-530: the dummy insert completes
dummyInserted(s, ans) ==
    LET s1 == [s EXCEPT !.obs.answer =
                 IF /\ ans.shape = "err" /\ ans.code = "000904"
                    /\ ans.errorCode = "000904" /\ ans.sqlState = "42000"
                    /\ ans.type = "COMPILATION"
                 THEN "expected" ELSE "other"]
    IN IF insertDummyRecord(ans) = "true"
       THEN probeReturn(s1, TRUE)
       ELSE [s1 EXCEPT !.frame.pc = "probe_retry"]

\* waitForTableToBeReady, lines 514 and 530-534: the sleep of the insert loop
\* ends
insertSlept(s) ==
    IF s.frame.attempt + 1 < maxInsertAttempts
    THEN probeInsert(s, s.frame.attempt + 1)
    ELSE probeReturn(s, FALSE)

\* --------------------------------------------------- Object-store adapter
\* what verifyS3Credentials may return: true, or the message of the error
\* (which may be empty)
CredentialAnswers == {"true", "message", ""}

\* the truthiness of isClientReady
truthy(v) == v \notin {"undefined", ""}

\* insertData of the object-store adapter, lines 192-215: PutObject completes
s3InsertData(s, ok) ==
    IF ok
    THEN mainReturn(s, Success(s.frame.batchLen, s.frame.batchLen, "none"))
    ELSE mainThrow(s, "S3Error")

\* main of the object-store adapter, lines 48-69, once initializeS3 returned
s3MainAfterInit(s) ==
    IF s.args.type \notin ValidTypes
    THEN mainThrow(s, "Invalid Record Type")
    ELSE [s EXCEPT !.frame.pc = "s3_put", !.frame.batchLen = s.args.batchLen,
                   !.obs.wrote = TRUE]

\* initializeS3, line 91
s3InitReturn(s) ==
    IF s.frame.op = "s3init"
    THEN [s EXCEPT !.frame.pc = "done",
                   !.frame.out = [NoResult EXCEPT !.kind = "returned",
                                                  !.status = "list"]]
    ELSE s3MainAfterInit(s)

\* initializeS3, lines 86-89
fromBucket(s) ==
    IF ~s.s3.canWriteToBucket
    THEN [s EXCEPT !.frame.pc = "s3_perm", !.obs.touched = TRUE]
    ELSE s3InitReturn(s)

\* initializeS3, lines 81-84
fromClient(s) ==
    IF ~truthy(s.s3.isClientReady)
    THEN [s EXCEPT !.frame.pc = "s3_verify", !.obs.touched = TRUE]
    ELSE fromBucket(s)

\* initializeS3, lines 82-84: verifyS3Credentials (94-111) has returned v
verifyDone(s, v) ==
    LET s1 == [s EXCEPT !.s3.isClientReady = v]
    IN IF ~truthy(v)
       THEN mainThrow(s1, "S3 credentials verification failed.")
       ELSE fromBucket(s1)

\* initializeS3, lines 87-89: verifyReadAndWritePermissions (118-184) has
\* returned ok
permDone(s, ok) ==
    LET s1 == [s EXCEPT !.s3.canWriteToBucket = ok]
    IN IF ~ok
       THEN mainThrow(s1, "Could not verify read/write bucket permissions.")
       ELSE s3InitReturn(s1)

\* ---------------------------------------------------------------- Init
FreshWarehouse ==
    [db |-> FALSE, schema |-> FALSE, tables |-> FALSE, stage |-> FALSE,
     pipes |-> FALSE, rows |-> FALSE]

ProvisionedWarehouse ==
    [db |-> TRUE, schema |-> TRUE, tables |-> TRUE, stage |-> TRUE,
     pipes |-> TRUE, rows |-> FALSE]

Init ==
    /\ env \in [snowflake_stage : BOOLEAN, snowflake_pipe : BOOLEAN,
                credentials : BOOLEAN]
    /\ adapter = [connection |-> FALSE, isConnectionReady |-> FALSE,
                  isDatasetReady |-> FALSE, areTablesReady |-> FALSE,
                  isStageReady |-> FALSE, isPipeReady |-> FALSE,
                  isSnowPipeReady |-> FALSE, snowpipeAPI |-> FALSE,
                  transport |-> "none"]
    /\ wh \in {FreshWarehouse, ProvisionedWarehouse}
    /\ frames = [p \in Procs |-> IdleFrame]
    /\ obs = [p \in Procs |-> NoObs]
    /\ hist = [lastAllTrue |-> FALSE, firstBound |-> "none", dropped |-> FALSE,
               lastTablesFailed |-> FALSE]
    /\ s3 = [isClientReady |-> "undefined", canWriteToBucket |-> FALSE]
    /\ logger = FreshLogger
    /\ shape = NoShape

\* ------------------------------------------------------------- actions
AllIdle == \A q \in Procs : frames[q].pc = "idle"

\* a step that cannot reach the place where main reads its arguments
Here(p) == Cur(p, [type |-> "track", batchLen |-> frames[p].batchLen])

\* the dispatcher calls main.init(tableNames)
CallInit(p) ==
    /\ frames[p].pc = "idle"
    /\ \E a \in Args :
         Commit(p, fromConnection(
           [Cur(p, a) EXCEPT !.frame = [IdleFrame EXCEPT !.op = "init"],
                             !.obs = [NoObs EXCEPT !.quiet = hist.lastAllTrue /\ AllIdle]]))

\* the dispatcher calls main(data, type, tableNames)
CallMain(p) ==
    /\ frames[p].pc = "idle"
    /\ \E a \in Args :
         Commit(p, fromConnection(
           [Cur(p, a) EXCEPT !.frame = [IdleFrame EXCEPT !.op = "main"],
                             !.obs = [NoObs EXCEPT !.quiet = hist.lastAllTrue /\ AllIdle]]))

Connect(p) ==
    /\ frames[p].pc = "connect"
    /\ \E ok \in BOOLEAN, a \in Args : Commit(p, connectDone(Cur(p, a), ok))

IsValid(p) ==
    /\ frames[p].pc = "isValid"
    /\ \E valid \in BOOLEAN, a \in Args : Commit(p, isValidDone(Cur(p, a), valid))

GetUser(p) ==
    /\ frames[p].pc = "getUser"
    /\ \E a \in Args : Commit(p, getUserDone(Cur(p, a)))

\* the existence query answers by what the warehouse holds, or fails in
\* some other way
Dataset(p) ==
    /\ frames[p].pc = "dataset"
    /\ \E chk \in {"count", "notexist", "other"} :
         /\ chk = "count" => wh.db
         /\ chk = "notexist" => ~wh.db
         /\ Commit(p, datasetChecked(Here(p), chk))

DatasetCreateDb(p) ==
    /\ frames[p].pc = "dataset_createDb"
    /\ \E r \in Responses : Commit(p, databaseCreated(Here(p), r))

DatasetSchemas(p) ==
    /\ frames[p].pc = "dataset_schemas"
    /\ \E isArray \in BOOLEAN :
         /\ isArray => wh.db
         /\ Commit(p, schemasListed(Here(p), isArray))

\* CREATE SCHEMA is rejected when the schema exists
DatasetCreateSchema(p) ==
    /\ frames[p].pc = "dataset_createSchema"
    /\ \E r \in Responses :
         /\ r = "ok" => ~wh.schema
         /\ Commit(p, schemaCreated(Here(p), r))

DatasetUse(p) ==
    /\ frames[p].pc = "dataset_use"
    /\ \E r \in Responses, a \in Args : Commit(p, datasetDone(Cur(p, a), r))

\* SHOW TABLES answers by what the warehouse holds, or is rejected
Tables(p) ==
    /\ frames[p].pc = "tables"
    /\ \E result \in {"rows", "empty", "reject"} :
         /\ result = "rows" => wh.tables
         /\ result = "empty" => ~wh.tables
         /\ Commit(p, tablesChecked(Here(p), result))

TablesCreate(p) ==
    /\ frames[p].pc = "tables_create"
    /\ \E r \in Responses : Commit(p, tableCreated(Here(p), r))

TablesProbe(p) ==
    /\ frames[p].pc = "tables_probe"
    /\ \E r \in {"ready", "notready", "throw"}, a \in Args :
         Commit(p, tablesDone(Cur(p, a), r))

Stage(p) ==
    /\ frames[p].pc = "stage"
    /\ \E fail \in {"none", "show", "create"}, a \in Args :
         Commit(p, stageDone(Cur(p, a), fail))

Pipe(p) ==
    /\ frames[p].pc = "pipe"
    /\ \E fail \in {"none", "show", "create"}, a \in Args :
         Commit(p, pipeDone(Cur(p, a), fail))

SnowPipe(p) ==
    /\ frames[p].pc = "snowpipe"
    /\ \E ok \in BOOLEAN, a \in Args : Commit(p, snowPipeDone(Cur(p, a), ok))

\* the rows an INSERT of len rows may resolve with: none, or one row that
\* carries the count
TaskRows(len) == {<<>>} \cup {<<n>> : n \in 0..len}

Insert(p) ==
    /\ frames[p].pc = "insert"
    /\ \E r \in Responses, task \in TaskRows(frames[p].batchLen) :
         Commit(p, insertData(Here(p), r, task))

CopyPut(p) ==
    /\ frames[p].pc = "copy_put"
    /\ \E r \in Responses : Commit(p, copyPut(Here(p), r))

CopyLoad(p) ==
    /\ frames[p].pc = "copy_load"
    /\ \E r \in Responses : Commit(p, copyLoad(Here(p), r))

CopyRemove(p) ==
    /\ frames[p].pc = "copy_remove"
    /\ \E r \in Responses : Commit(p, copyRemove(Here(p), r))

PipePut(p) ==
    /\ frames[p].pc = "pipe_put"
    /\ \E r \in Responses : Commit(p, pipePut(Here(p), r))

PipeNotify(p) ==
    /\ frames[p].pc = "pipe_notify"
    /\ \E ok \in BOOLEAN : Commit(p, pipeNotify(Here(p), ok))

PutPut(p) ==
    /\ frames[p].pc = "put_put"
    /\ \E r \in Responses : Commit(p, putPut(Here(p), r))

Backoff(p) ==
    /\ frames[p].pc = "backoff"
    /\ Commit(p, retryAgain(Here(p)))

\* the dispatcher calls init of the object-store adapter
CallS3Init(p) ==
    /\ AllIdle
    /\ \E a \in Args :
         Commit(p, fromClient(
           [Cur(p, a) EXCEPT !.frame = [IdleFrame EXCEPT !.op = "s3init"],
                             !.obs = NoObs]))

\* the dispatcher calls main of the object-store adapter
CallS3Main(p) ==
    /\ AllIdle
    /\ \E a \in Args :
         Commit(p, fromClient(
           [Cur(p, a) EXCEPT !.frame = [IdleFrame EXCEPT !.op = "s3main"],
                             !.obs = NoObs]))

S3Verify(p) ==
    /\ frames[p].pc = "s3_verify"
    /\ \E v \in CredentialAnswers, a \in Args : Commit(p, verifyDone(Cur(p, a), v))

S3Perm(p) ==
    /\ frames[p].pc = "s3_perm"
    /\ \E ok \in BOOLEAN, a \in Args : Commit(p, permDone(Cur(p, a), ok))

S3Put(p) ==
    /\ frames[p].pc = "s3_put"
    /\ \E ok \in BOOLEAN : Commit(p, s3InsertData(Here(p), ok))

\* the dispatcher calls main.drop(tableNames)
CallDrop(p) ==
    /\ AllIdle
    /\ Commit(p, dropTables([Here(p) EXCEPT
                               !.frame = [IdleFrame EXCEPT !.op = "drop"],
                               !.obs = NoObs]))

DropChains(p) ==
    /\ frames[p].pc = "drop_tables"
    /\ \E chain \in Chains : Commit(p, chainsSettled(Here(p), chain))

DropStage(p) ==
    /\ frames[p].pc = "drop_stage"
    /\ \E r \in Responses : Commit(p, stageDropped(Here(p), r))

DropStep(p) == CallDrop(p) \/ DropChains(p) \/ DropStage(p)

S3Step(p) ==
    CallS3Init(p) \/ CallS3Main(p) \/ S3Verify(p) \/ S3Perm(p) \/ S3Put(p)

\* the caller has taken the outcome; the frame is gone
Finish(p) ==
    /\ frames[p].pc = "done"
    /\ frames' = [frames EXCEPT ![p] = IdleFrame]
    /\ obs' = [obs EXCEPT ![p] = NoObs]
    /\ hist' = IF frames[p].op \in {"init", "main"}
               THEN [hist EXCEPT !.lastTablesFailed =
                       (frames[p].out.errorMessage = TablesFailed)]
               ELSE hist
    /\ UNCHANGED <<env, adapter, wh, s3, shape, logger>>

Step(p) ==
    \/ Connect(p) \/ IsValid(p) \/ GetUser(p)
    \/ Dataset(p) \/ DatasetCreateDb(p) \/ DatasetSchemas(p)
    \/ DatasetCreateSchema(p) \/ DatasetUse(p)
    \/ Tables(p) \/ TablesCreate(p) \/ TablesProbe(p)
    \/ Stage(p) \/ Pipe(p) \/ SnowPipe(p)
    \/ Insert(p) \/ CopyPut(p) \/ CopyLoad(p) \/ CopyRemove(p)
    \/ PipePut(p) \/ PipeNotify(p) \/ Backoff(p)

\* NumProcs calls, overlapping in every possible way
Next == \E p \in Procs : CallInit(p) \/ CallMain(p) \/ Step(p)

Spec == Init /\ [][Next]_vars

\* any number of calls, each made after the previous one has ended
SeqCallInit(p) == AllIdle /\ CallInit(p)

SeqCallMain(p) == AllIdle /\ CallMain(p)

NextSeq ==
    \E p \in Procs :
        \/ SeqCallInit(p) \/ SeqCallMain(p) \/ Step(p) \/ Finish(p)
        \/ S3Step(p) \/ DropStep(p)

SpecSeq == Init /\ [][NextSeq]_vars

\* ------------------------------------------------- the probe on its own
InitProbe ==
    /\ env \in [snowflake_stage : BOOLEAN, snowflake_pipe : BOOLEAN,
                credentials : {TRUE}]
    /\ adapter = [connection |-> TRUE, isConnectionReady |-> TRUE,
                  isDatasetReady |-> TRUE, areTablesReady |-> FALSE,
                  isStageReady |-> FALSE, isPipeReady |-> FALSE,
                  isSnowPipeReady |-> FALSE, snowpipeAPI |-> FALSE,
                  transport |-> "none"]
    /\ wh = [ProvisionedWarehouse EXCEPT !.stage = FALSE, !.pipes = FALSE]
    /\ frames = [p \in Procs |-> IdleFrame]
    /\ obs = [p \in Procs |-> NoObs]
    /\ hist = [lastAllTrue |-> FALSE, firstBound |-> "none", dropped |-> FALSE,
               lastTablesFailed |-> FALSE]
    /\ s3 = [isClientReady |-> "undefined", canWriteToBucket |-> FALSE]
    /\ logger = FreshLogger
    /\ shape = NoShape

\* verifyOrCreateTables, lines 381 and 391: waitForTableToBeReady(table)
CallProbe(p) ==
    /\ AllIdle
    /\ Commit(p, probeStart([Here(p) EXCEPT
                               !.frame = [IdleFrame EXCEPT !.op = "probe"],
                               !.obs = NoObs]))

ProbeExists(p) ==
    /\ frames[p].pc = "probe_exists"
    /\ \E result \in {"rows", "empty", "undefined", "reject"} :
         Commit(p, existsChecked(Here(p), result))

ProbeSleep(p) ==
    /\ frames[p].pc = "probe_sleep"
    /\ Commit(p, existenceSlept(Here(p)))

ProbeInsert(p) ==
    /\ frames[p].pc = "probe_insert"
    /\ \E ans \in DummyAnswers : Commit(p, dummyInserted(Here(p), ans))

ProbeRetry(p) ==
    /\ frames[p].pc = "probe_retry"
    /\ Commit(p, insertSlept(Here(p)))

ProbeStep(p) ==
    \/ CallProbe(p) \/ ProbeExists(p) \/ ProbeSleep(p)
    \/ ProbeInsert(p) \/ ProbeRetry(p)

NextProbe == \E p \in Procs : ProbeStep(p) \/ Finish(p)

\* every pending await of the probe completes: the backend answers and the
\* timers fire
SpecProbe ==
    /\ InitProbe /\ [][NextProbe]_vars
    /\ \A p \in Procs : WF_vars(ProbeStep(p))

\* ------------------------------------------- the strategies on their own
Transports == {"insert", "copy", "pipe", "task"}

\* an adapter whose initialisation has completed with transport t
ReadyAdapter(t) ==
    [connection |-> TRUE, isConnectionReady |-> TRUE,
     isDatasetReady |-> TRUE, areTablesReady |-> TRUE,
     isStageReady |-> (t # "insert"), isPipeReady |-> (t = "pipe"),
     isSnowPipeReady |-> (t = "pipe"), snowpipeAPI |-> (t = "pipe"),
     transport |-> t]

InitStrategy ==
    /\ \E t \in Transports :
         /\ adapter = ReadyAdapter(t)
         /\ env = [snowflake_stage |-> (t # "insert"),
                   snowflake_pipe |-> (t = "pipe"), credentials |-> TRUE]
    /\ wh = ProvisionedWarehouse
    /\ frames = [p \in Procs |-> IdleFrame]
    /\ obs = [p \in Procs |-> NoObs]
    /\ hist = [lastAllTrue |-> TRUE, firstBound |-> "none", dropped |-> FALSE,
               lastTablesFailed |-> FALSE]
    /\ s3 = [isClientReady |-> "undefined", canWriteToBucket |-> FALSE]
    /\ logger = FreshLogger
    /\ shape = NoShape

\* main, lines 116-132: the strategy of the current transport is called
\* with a batch
CallStrategy(p) ==
    /\ AllIdle
    /\ \E n \in 0..MaxBatch :
         Commit(p, strategyStart(
           [Cur(p, [type |-> "track", batchLen |-> n]) EXCEPT
              !.frame = [IdleFrame EXCEPT
                           !.op = "strategy",
                           !.insertMethod = insertMethodOf(adapter.transport),
                           !.batchLen = n, !.attempt = 1],
              !.obs = [NoObs EXCEPT !.bound = adapter.transport]]))

NextStrategy ==
    \E p \in Procs :
        \/ CallStrategy(p)
        \/ Insert(p) \/ CopyPut(p) \/ CopyLoad(p) \/ CopyRemove(p)
        \/ PipePut(p) \/ PipeNotify(p) \/ PutPut(p) \/ Finish(p)

SpecStrategy == InitStrategy /\ [][NextStrategy]_vars

\* ====================================================== the properties
Done(p) == frames[p].pc = "done"

ConfiguredTransport ==
    IF env.snowflake_pipe THEN "pipe"
    ELSE IF env.snowflake_stage THEN "copy" ELSE "insert"

\* the call ended because initializeSnowflake failed or returned a false
InitFailed(p) ==
    /\ frames[p].out.kind = "thrown"
    /\ frames[p].out.errorMessage \notin {"Invalid Record Type", "Invalid transport method"}

\* C1: a main call with an empty batch returns status success with 0
\* inserted and 0 failed rows, and issues no backend write call for it.
C1_EmptyBatchNoWrite ==
    \A p \in Procs :
        (frames[p].op = "main" /\ obs[p].bound # "none" /\ frames[p].batchLen = 0)
        => /\ ~obs[p].wrote
           /\ Done(p) => /\ frames[p].out.kind = "returned"
                         /\ frames[p].out.status = "success"
                         /\ frames[p].out.insertedRows = 0
                         /\ frames[p].out.failedRows = 0

\* C2: a main call that is refused for its record kind has made no backend
\* call and changed no adapter state before the refusal.
C2_InvalidKindNoSideEffect ==
    \A p \in Procs :
        (Done(p) /\ frames[p].out.kind = "thrown"
                 /\ frames[p].out.errorMessage = "Invalid Record Type")
        => ~obs[p].touched

\* C3: an init made after an init that returned only true values, with no
\* call in between or overlapping, makes no creation call and returns only
\* true values again.
C3_SecondInitNoCreation ==
    \A p \in Procs :
        obs[p].quiet => /\ ~obs[p].created
                        /\ ~InitFailed(p)
                        /\ every(frames[p].result)

C3_Witness ==
    \E p \in Procs :
        /\ obs[p].quiet /\ Done(p) /\ frames[p].op = "init"
        /\ frames[p].out.kind = "returned" /\ Len(frames[p].result) = 3

\* C4: the strategy a main call binds is the one the configuration implies:
\* pipe with a pipe name, else copy with a stage name, else insert.
C4_BoundStrategyMatchesConfig ==
    \A p \in Procs :
        obs[p].bound # "none" => obs[p].bound = ConfiguredTransport

\* C5: once a main call has bound a strategy, transport keeps the value it
\* had at that first binding.
C5_TransportSelectedOnce ==
    hist.firstBound # "none" => adapter.transport = hist.firstBound

\* C6: no readiness flag that is true becomes false again.
C6_FlagsMonotonic ==
    [][/\ adapter.isConnectionReady => adapter'.isConnectionReady
       /\ adapter.isDatasetReady => adapter'.isDatasetReady
       /\ adapter.areTablesReady => adapter'.areTablesReady
       /\ adapter.isStageReady => adapter'.isStageReady
       /\ adapter.isPipeReady => adapter'.isPipeReady
       /\ adapter.isSnowPipeReady => adapter'.isSnowPipeReady]_vars

\* C7: when the strategy throws contention errors k < MAX_RETRIES times and
\* then succeeds, the engine returns that success after exactly k+1 calls;
\* it never gives up on a contention error while attempts remain.
C7_RetryUntilSuccess ==
    \A p \in Procs :
        (Done(p) /\ obs[p].calls >= 1)
        => /\ obs[p].last = "ok"
                => /\ frames[p].out.kind = "returned"
                   /\ frames[p].out.status = "success"
                   /\ obs[p].calls = obs[p].locks + 1
           /\ obs[p].last = "locked" => obs[p].calls = MAX_RETRIES

C7_Witness ==
    \E p \in Procs :
        /\ Done(p) /\ obs[p].last = "ok"
        /\ obs[p].locks = MAX_RETRIES - 1 /\ obs[p].calls = MAX_RETRIES
        /\ frames[p].out.status = "success"

\* C8: a strategy call that throws an error other than contention ends the
\* engine at once: the error is surfaced and no further call is made.
C8_NoRetryOnFatal ==
    \A p \in Procs :
        obs[p].fatals >= 1
        => /\ Done(p)
           /\ obs[p].fatals = 1
           /\ frames[p].out.status = "error"
           /\ frames[p].out.errorMessage = obs[p].lastError
           /\ obs[p].locks = 0 => obs[p].calls = 1

C8_Witness ==
    \E p \in Procs :
        /\ Done(p) /\ obs[p].fatals = 1 /\ obs[p].locks = 0 /\ obs[p].calls = 1
        /\ frames[p].out.status = "error" /\ frames[p].out.errorMessage = "SqlError"

\* C9: the engine never makes more than MAX_RETRIES calls of the strategy,
\* and an invocation whose every call failed ends in an error, not a success.
C9_RetryBounded ==
    \A p \in Procs :
        /\ obs[p].calls <= MAX_RETRIES
        /\ (Done(p) /\ obs[p].calls >= 1 /\ obs[p].last # "ok")
           => frames[p].out.status = "error"

C9_Witness ==
    \E p \in Procs :
        /\ Done(p) /\ obs[p].locks = MAX_RETRIES /\ obs[p].calls = MAX_RETRIES
        /\ frames[p].out.status = "error"
        /\ frames[p].out.errorMessage = "TableLockedError"

\* C10: on the insert transport a locked-table answer to the INSERT is
\* retried: a call that met one has called the strategy at least twice.
C10_LockedInsertIsRetried ==
    \A p \in Procs :
        (Done(p) /\ frames[p].insertMethod = "insertData" /\ obs[p].sawLock)
        => obs[p].calls >= 2

\* a direct call of a strategy
Direct(p) == frames[p].op = "strategy"

FileStrategies == {"copyIntoData", "insertWithPipe", "insertWithPut"}

\* C11: when a call of the copy, pipe or put strategy has ended, by return
\* or by throw, the local file it wrote no longer exists.
C11_LocalFileRemoved ==
    \A p \in Procs :
        (Direct(p) /\ Done(p) /\ frames[p].insertMethod \in FileStrategies)
        => ~frames[p].localFile

\* C12: when the load statement of the copy strategy throws after a
\* successful upload, the call ends at once with that exception, the local
\* file is removed, and no REMOVE of the staged file is issued.
C12_LoadFailureCleansUp ==
    [][\A p \in Procs :
         (Direct(p) /\ frames[p].pc = "copy_load" /\ frames'[p].pc # "copy_remove")
         => /\ frames'[p].pc = "done"
            /\ frames'[p].out.kind = "thrown"
            /\ frames'[p].out.errorMessage \in {"TableLockedError", "SqlError"}
            /\ ~frames'[p].localFile
            /\ frames'[p].staged
            /\ ~obs'[p].removeTried]_vars

C12_Witness ==
    \E p \in Procs :
        /\ Direct(p) /\ Done(p) /\ frames[p].insertMethod = "copyIntoData"
        /\ frames[p].out.kind = "thrown" /\ frames[p].staged
        /\ ~frames[p].localFile /\ ~obs[p].removeTried

\* C13: the pipe strategy issues no REMOVE; a call that uploaded its file
\* leaves it staged, and a call that returns reports every row inserted.
C13_PipeKeepsStagedFile ==
    \A p \in Procs :
        (Direct(p) /\ frames[p].insertMethod = "insertWithPipe")
        => /\ ~obs[p].removeTried
           /\ frames[p].pc = "pipe_notify" => frames[p].staged
           /\ (Done(p) /\ ~frames[p].localFile) => frames[p].staged
           /\ (Done(p) /\ frames[p].out.kind = "returned")
              => /\ frames[p].staged
                 /\ frames[p].out.status = "success"
                 /\ frames[p].out.insertedRows = frames[p].batchLen
                 /\ frames[p].out.failedRows = 0

C13_Witness ==
    \E p \in Procs :
        /\ Direct(p) /\ Done(p) /\ frames[p].insertMethod = "insertWithPipe"
        /\ frames[p].out.status = "success" /\ frames[p].staged
        /\ frames[p].batchLen = MaxBatch /\ frames[p].out.insertedRows = MaxBatch

\* C14: every result that main returns, of either adapter and of either
\* status, has insertedRows + failedRows equal to the length of the batch,
\* whatever row count the INSERT statement resolved with.
C14_RowsAddUp ==
    \A p \in Procs :
        (Done(p) /\ frames[p].op \in {"main", "s3main"}
                 /\ frames[p].out.kind = "returned")
        => frames[p].out.insertedRows + frames[p].out.failedRows = frames[p].batchLen

C14_Witness ==
    \E p \in Procs :
        /\ Done(p) /\ frames[p].op = "main" /\ frames[p].out.status = "success"
        /\ frames[p].insertMethod = "insertData" /\ frames[p].batchLen = MaxBatch
        /\ frames[p].out.insertedRows = 1 /\ frames[p].out.failedRows = MaxBatch - 1

\* C15: a call of the copy, pipe or put strategy ends either with a result
\* that reports every row inserted and none failed, or with a throw.
C15_AllOrNothing ==
    \A p \in Procs :
        (Direct(p) /\ Done(p) /\ frames[p].insertMethod \in FileStrategies)
        => \/ frames[p].out.kind = "thrown"
           \/ /\ frames[p].out.kind = "returned"
              /\ frames[p].out.status = "success"
              /\ frames[p].out.insertedRows = frames[p].batchLen
              /\ frames[p].out.failedRows = 0

C15_Witness ==
    \E p \in Procs :
        /\ Direct(p) /\ Done(p) /\ frames[p].insertMethod = "insertWithPut"
        /\ frames[p].out.status = "success" /\ frames[p].batchLen = MaxBatch
        /\ frames[p].out.insertedRows = MaxBatch /\ frames[p].staged

\* C16: every result a strategy returns, success or error, carries the
\* method tag of the transport whose strategy was called.
C16_ResultCarriesMethod ==
    \A p \in Procs :
        (Direct(p) /\ Done(p) /\ frames[p].out.kind = "returned")
        => frames[p].out.method = obs[p].bound

\* C17: the insert strategy never throws when its statement fails: it
\* returns an error result with no row inserted, every row failed, and the
\* message of the exception.
C17_InsertNeverThrows ==
    \A p \in Procs :
        (Direct(p) /\ Done(p) /\ frames[p].insertMethod = "insertData")
        => /\ frames[p].out.kind = "returned"
           /\ frames[p].out.status = "error"
              => /\ frames[p].out.insertedRows = 0
                 /\ frames[p].out.failedRows = frames[p].batchLen
                 /\ frames[p].out.errorMessage =
                      (IF obs[p].sawLock THEN "TableLockedError" ELSE "SqlError")

C17_Witness ==
    \E p \in Procs :
        /\ Direct(p) /\ Done(p) /\ frames[p].insertMethod = "insertData"
        /\ frames[p].out.status = "error" /\ frames[p].batchLen = MaxBatch
        /\ frames[p].out.failedRows = MaxBatch
        /\ frames[p].out.errorMessage = "TableLockedError"

\* what the probe has done, against what it was answered
ProbeSafe ==
    \A p \in Procs :
        frames[p].op = "probe"
        => /\ obs[p].calls <= maxInsertAttempts
           /\ obs[p].calls >= 1 => obs[p].exists
           /\ obs[p].answer = "expected"
              => (Done(p) /\ frames[p].out.status = "true")
           /\ (Done(p) /\ frames[p].out.status = "true")
              => (obs[p].answer = "expected" /\ obs[p].calls >= 1)
           /\ (Done(p) /\ frames[p].out.status = "false" /\ obs[p].exists)
              => (obs[p].calls = maxInsertAttempts /\ obs[p].answer = "other")

\* C18: once the table is seen to exist, the probe reports ready as soon as
\* a dummy insert is answered with the unknown-column compilation error (after
\* one attempt when the first answer is that error) and only then; answered
\* otherwise every time, it reports not-ready after exactly maxInsertAttempts
\* attempts; and every probe ends.
C18_ProbeReady ==
    /\ []ProbeSafe
    /\ \A p \in Procs : (frames[p].op = "probe" /\ ~Done(p)) ~> Done(p)

C18_Witness ==
    \E p \in Procs :
        /\ frames[p].op = "probe" /\ Done(p) /\ frames[p].out.status = "false"
        /\ obs[p].exists /\ obs[p].calls = maxInsertAttempts
        /\ obs[p].answer = "other"

\* C19: a drop made on a connected adapter attempts the deletion of every
\* table, pipe and task of the given names and of the stage, and returns its
\* summary, whichever of the deletions fail.
C19_DropBestEffort ==
    \A p \in Procs :
        (frames[p].op = "drop" /\ Done(p) /\ adapter.connection)
        => /\ frames[p].out.kind = "returned"
           /\ obs[p].tried = AllResources

\* a call made after a drop, and after an init that returned only true values
AfterDrop(p) ==
    /\ frames[p].op \in {"init", "main"} /\ frames[p].pc # "idle"
    /\ obs[p].quiet /\ hist.dropped

\* C20: no step of drop changes a readiness flag, the connection or the
\* transport; a call made after a drop makes no bootstrap call, and a main
\* call with a valid kind goes on to its write.
C20_DropKeepsState ==
    /\ [][(\E p \in Procs : frames'[p].op = "drop" /\ frames'[p].pc # "idle")
           => adapter' = adapter]_vars
    /\ [](\A p \in Procs :
            AfterDrop(p)
            => /\ ~obs[p].touched
               /\ (Done(p) /\ frames[p].op = "main")
                  => \/ obs[p].wrote
                     \/ frames[p].out.errorMessage = "Invalid Record Type")

C20_Witness ==
    \E p \in Procs :
        /\ AfterDrop(p) /\ Done(p) /\ frames[p].op = "main"
        /\ obs[p].wrote /\ ~obs[p].touched
        /\ ~wh.tables /\ ~wh.stage /\ adapter.areTablesReady

\* the awaits of each bootstrap step
DatasetPcs ==
    {"dataset", "dataset_createDb", "dataset_schemas", "dataset_createSchema",
     "dataset_use"}

TablePcs == {"tables", "tables_create", "tables_probe"}

LaterPcs == DatasetPcs \cup TablePcs \cup {"stage", "pipe", "snowpipe"}

\* C21: no bootstrap step of a call empties a table another call has
\* written to, and while such rows exist no bootstrap step removes the
\* database, schema, table, stage or pipe the warehouse holds.
C21_BootstrapKeepsData ==
    [][\A p \in Procs :
         (/\ frames[p].pc \in LaterPcs
          /\ frames'[p] # frames[p]
          /\ wh.rows)
         => /\ wh'.rows
            /\ wh.db => wh'.db
            /\ wh.schema => wh'.schema
            /\ wh.tables => wh'.tables
            /\ wh.stage => wh'.stage
            /\ wh.pipes => wh'.pipes]_vars

\* C22: with a required credential field absent, a call throws at once:
\* it makes no connection attempt and no backend call, the connection flag
\* stays unset and no later step runs.
C22_MissingCredentialFailsFast ==
    \A p \in Procs :
        (~env.credentials /\ frames[p].op \in {"init", "main"}
                          /\ frames[p].pc # "idle")
        => /\ Done(p)
           /\ frames[p].out.kind = "thrown"
           /\ frames[p].out.errorMessage = "credential is required"
           /\ ~obs[p].touched
           /\ ~adapter.isConnectionReady /\ ~adapter.connection

C22_Witness ==
    \E p \in Procs :
        /\ ~env.credentials /\ Done(p) /\ frames[p].op = "init"
        /\ frames[p].out.errorMessage = "credential is required"

\* C24: a step runs only when the flags of the steps before it are true:
\* dataset after connection, tables after dataset, stage after tables, and
\* pipe after stage.
C24_DependencyChain ==
    \A p \in Procs :
        /\ frames[p].pc \in DatasetPcs => adapter.isConnectionReady
        /\ frames[p].pc \in TablePcs
           => (adapter.isConnectionReady /\ adapter.isDatasetReady)
        /\ frames[p].pc = "stage"
           => /\ adapter.isConnectionReady /\ adapter.isDatasetReady
              /\ adapter.areTablesReady
        /\ frames[p].pc = "pipe"
           => /\ adapter.isConnectionReady /\ adapter.isDatasetReady
              /\ adapter.areTablesReady /\ adapter.isStageReady

\* C26: a call whose liveness check failed after a successful connect runs
\* no later step: it throws the invalid-state error and leaves the
\* connection flag false.
C26_LivenessFailureIsFatal ==
    /\ [][\A p \in Procs :
            (frames[p].pc = "getUser" /\ ~adapter.isConnectionReady
                                      /\ frames'[p] # frames[p])
            => /\ frames'[p].pc = "done"
               /\ frames'[p].out.kind = "thrown"
               /\ frames'[p].out.errorMessage =
                    "snowflake connection is in an invalid state."
               /\ ~adapter'.isConnectionReady]_vars
    /\ [](\A p \in Procs :
            /\ frames[p].pc \in LaterPcs => adapter.isConnectionReady
            /\ (Done(p) /\ frames[p].out.errorMessage =
                            "snowflake connection is in an invalid state.")
               => (adapter.connection /\ ~adapter.isConnectionReady))

C26_Witness ==
    \E p \in Procs :
        /\ Done(p) /\ frames[p].out.kind = "thrown"
        /\ frames[p].out.errorMessage =
             "snowflake connection is in an invalid state."
        /\ adapter.connection /\ ~adapter.isConnectionReady

\* C27: the dataset step issues CREATE OR REPLACE DATABASE only when the
\* database is absent and CREATE SCHEMA only when the schema is absent, and
\* switches to the schema when both exist.
C27_CreateOnlyIfAbsent ==
    \A p \in Procs :
        /\ frames[p].pc = "dataset_createDb" => ~wh.db
        /\ frames[p].pc = "dataset_createSchema" => ~wh.schema
        /\ frames[p].pc = "dataset_use" => (wh.db /\ wh.schema)

\* C28: a write strategy starts only in a call whose own init list held
\* only true values, and at that moment the connection, dataset and table
\* flags are true.
C28_StrategyStartsReady ==
    [][\A p \in Procs :
         (frames[p].op = "main" /\ obs'[p].calls = obs[p].calls + 1)
         => /\ every(frames'[p].result)
            /\ adapter'.isConnectionReady
            /\ adapter'.isDatasetReady
            /\ adapter'.areTablesReady]_vars

\* C25: a call whose table step reports not ready throws and leaves the
\* table flag false and the transport unassigned, with the connection and
\* dataset flags true; the next call starts at the table step: it neither
\* connects nor runs the dataset step.
C25_TableFailureRetried ==
    /\ [](\A p \in Procs :
            (Done(p) /\ frames[p].out.errorMessage = TablesFailed)
            => /\ frames[p].out.kind = "thrown"
               /\ ~adapter.areTablesReady
               /\ adapter.transport = "none"
               /\ adapter.isConnectionReady /\ adapter.isDatasetReady)
    /\ [][\A p \in Procs :
            (/\ hist.lastTablesFailed
             /\ frames[p].pc = "idle" /\ frames'[p].pc # "idle"
             /\ frames'[p].op \in {"init", "main"})
            => frames'[p].pc = "tables"]_vars

C25_Witness ==
    \E p \in Procs :
        /\ hist.lastTablesFailed
        /\ frames[p].op \in {"init", "main"}
        /\ frames[p].pc = "tables_probe"
        /\ ~obs[p].created

\* C23: in the object-store adapter a failed credential verification never
\* leaves the client flag ready (truthy), so that a later init verifies
\* again, and an init that returns returns a list holding the boolean true.
C23_S3FailureNotReady ==
    /\ truthy(s3.isClientReady) => s3.isClientReady = "true"
    /\ \A p \in Procs :
          (Done(p) /\ frames[p].op = "s3init"
                   /\ frames[p].out.kind = "returned")
          => s3.isClientReady = "true"

\* ------------------------------------------------------ payload shaping
\* the values a record field holds: null, undefined, a string (its
\* characters) or a structure
Null == [k |-> "null", cs |-> <<>>]

Undefined == [k |-> "undefined", cs |-> <<>>]

Str(cs) == [k |-> "string", cs |-> cs]

\* the structure the text {} stands for
Obj == [k |-> "object", cs |-> <<>>]

Cols == {"a", "b"}

\* records: in column a null, undefined, a structure, or one of the strings
\* '', ' ', 'null', 'x' and '{}'; in column b a plain or an empty string
Rows ==
    {[c \in Cols |-> IF c = "a" THEN v ELSE w] :
        v \in {Null, Undefined, Obj}
              \cup {Str(cs) : cs \in {<<>>, <<" ">>, <<"n", "u", "l", "l">>,
                                      <<"x">>, <<"{", "}">>}},
        w \in {Str(<<"x">>), Str(<<>>)}}

\* schemas: one or two distinct columns in either order
Schemas ==
    LET ColumnTypes == {"VARCHAR", "VARIANT"}
    IN {<<[name |-> c, type |-> ty]>> : c \in Cols, ty \in ColumnTypes}
       \cup {<<[name |-> cd[1], type |-> ty], [name |-> cd[2], type |-> tz]>> :
               cd \in {x \in Cols \X Cols : x[1] # x[2]},
               ty \in ColumnTypes, tz \in ColumnTypes}

RECURSIVE trimStart(_)
trimStart(cs) ==
    IF cs # <<>> /\ Head(cs) = " " THEN trimStart(Tail(cs)) ELSE cs

RECURSIVE trimEnd(_)
trimEnd(cs) ==
    IF cs # <<>> /\ cs[Len(cs)] = " "
    THEN trimEnd(SubSeq(cs, 1, Len(cs) - 1))
    ELSE cs

\* String.prototype.trim
trim(cs) == trimEnd(trimStart(cs))

\* JSON.parse: the structure or null the text stands for, or a SyntaxError
JSONparse(cs) ==
    IF trim(cs) = <<"{", "}">> THEN [threw |-> FALSE, v |-> Obj]
    ELSE IF trim(cs) = <<"n", "u", "l", "l">> THEN [threw |-> FALSE, v |-> Null]
    ELSE [threw |-> TRUE, v |-> Undefined]

\* u.isJSONStr: the text parses to an object or an array
isJSONStr(cs) == ~JSONparse(cs).threw /\ JSONparse(cs).v.k = "object"

\* JSON.stringify of the repaired rows: one text for the whole batch
JSONstringify(rows) == [k |-> "string", json |-> rows]

\* the truthiness of a field value
isTruthy(v) == v \notin {Null, Undefined, Str(<<>>)}

\* formatBindValue, lines 924-950
formatBindValue(value, type) ==
    LET \* value.toString() of a value that is neither null nor undefined
        toString == IF value.k = "string" THEN value.cs
                    ELSE <<"[object Object]">>
    IN
    IF \/ value = Null \/ value = Undefined
       \/ value = Str(<<"n", "u", "l", "l">>) \/ value = Str(<<>>)
       \/ trim(toString) = <<>>
    THEN Null
    ELSE IF type = "VARIANT"
    THEN value
    ELSE IF value.k = "string" /\ isJSONStr(value.cs)
    THEN IF JSONparse(value.cs).threw THEN value ELSE JSONparse(value.cs).v
    ELSE value

\* prepareComplexRows, lines 900-922: the row after the call, which is also
\* the row the call returns
prepareComplexRows(row, schema) ==
    LET variantCols ==
            {schema[j].name : j \in {i \in 1..Len(schema) :
                                       schema[i].type = "VARIANT"}}
        parsed == [c \in DOMAIN row |->
                     IF /\ c \in variantCols /\ isTruthy(row[c])
                        /\ row[c].k = "string" /\ ~JSONparse(row[c].cs).threw
                     THEN JSONparse(row[c].cs).v
                     ELSE row[c]]
    IN [key \in DOMAIN row |->
          IF parsed[key] \in {Null, Undefined, Str(<<"n", "u", "l", "l">>),
                              Str(<<>>)}
          THEN Null
          ELSE parsed[key]]

\* prepareInsertSQL, line 962
hasVariant(schema) == \E j \in 1..Len(schema) : schema[j].type = "VARIANT"

\* insertData, lines 555-565: the payload, and the records of the batch
\* after shaping
shapeData(batch, schema) ==
    IF hasVariant(schema)
    THEN LET rows == [i \in 1..Len(batch) |->
                        prepareComplexRows(batch[i], schema)]
         IN [batch |-> rows, data |-> <<JSONstringify(rows)>>]
    ELSE [batch |-> batch,
          data |-> [i \in 1..Len(batch) |->
                      [j \in 1..Len(schema) |->
                         formatBindValue(batch[i][schema[j].name],
                                         schema[j].type)]]]

\* a batch and a schema, about to be shaped
InitShape ==
    /\ env = [snowflake_stage |-> FALSE, snowflake_pipe |-> FALSE,
              credentials |-> TRUE]
    /\ adapter = ReadyAdapter("insert")
    /\ wh = ProvisionedWarehouse
    /\ frames = [p \in Procs |-> IdleFrame]
    /\ obs = [p \in Procs |-> NoObs]
    /\ hist = [lastAllTrue |-> TRUE, firstBound |-> "none", dropped |-> FALSE,
               lastTablesFailed |-> FALSE]
    /\ s3 = [isClientReady |-> "undefined", canWriteToBucket |-> FALSE]
    /\ logger = FreshLogger
    /\ \E b \in UNION {[1..n -> Rows] : n \in 0..MaxBatch}, sch \in Schemas :
         shape = [input |-> b, batch |-> b, schema |-> sch, data |-> <<>>,
                  shaped |-> 0]

\* insertData shapes the batch it was called with; the retry engine calls it
\* again with the same batch, up to MAX_RETRIES times
Shape ==
    /\ shape.shaped < MAX_RETRIES
    /\ LET r == shapeData(shape.batch, shape.schema)
       IN shape' = [shape EXCEPT !.batch = r.batch, !.data = r.data,
                                 !.shaped = @ + 1]
    /\ UNCHANGED <<env, adapter, wh, frames, obs, hist, s3, logger>>

NextShape == Shape

SpecShape == InitShape /\ [][NextShape]_vars

\* C29: shaping leaves the records of the batch as they were handed in, with
\* and without a variant column, so every attempt shapes the same records.
C29_ShapingKeepsInput ==
    shape.shaped > 0 => shape.batch = shape.input

\* C30: without a variant column the payload holds one row per record, in
\* the order of the batch, and row i holds one value per schema column:
\* value j is the normalization of field schema[j].name of record i.
C30_PositionalRows ==
    LET \* value normalization: null, undefined, the empty string and the
        \* string "null" become null, a string that parses as JSON becomes
        \* the structure, every other value stays
        normalization(v) ==
            IF v \in {Null, Undefined, Str(<<>>), Str(<<"n", "u", "l", "l">>)}
            THEN Null
            ELSE IF v.k = "string" /\ isJSONStr(v.cs)
            THEN JSONparse(v.cs).v
            ELSE v
    IN (shape.shaped > 0 /\ ~hasVariant(shape.schema))
       => /\ Len(shape.data) = Len(shape.input)
          /\ \A i \in 1..Len(shape.input) :
               /\ Len(shape.data[i]) = Len(shape.schema)
               /\ \A j \in 1..Len(shape.schema) :
                    shape.data[i][j] =
                      normalization(shape.input[i][shape.schema[j].name])

\* -------------------------------------- overlapping calls on ready tables
\* the process after a call whose stage or pipe statement failed: the
\* connection, the dataset and the tables are ready, a pipe name is set, and
\* neither the pipe nor the streaming client has been set up
InitPipe ==
    /\ env \in [snowflake_stage : BOOLEAN, snowflake_pipe : {TRUE},
                credentials : {TRUE}]
    /\ adapter = [ReadyAdapter("insert") EXCEPT !.isStageReady = FALSE]
    /\ wh = [ProvisionedWarehouse EXCEPT !.stage = FALSE, !.pipes = FALSE]
    /\ frames = [p \in Procs |-> IdleFrame]
    /\ obs = [p \in Procs |-> NoObs]
    /\ hist = [lastAllTrue |-> FALSE, firstBound |-> "none", dropped |-> FALSE,
               lastTablesFailed |-> FALSE]
    /\ s3 = [isClientReady |-> "undefined", canWriteToBucket |-> FALSE]
    /\ logger = FreshLogger
    /\ shape = NoShape

\* the process makes one main call, in its first frame
OneMain(p) ==
    /\ \A q \in Procs : p <= q
    /\ CallMain(p)

\* one main call among init calls, NumProcs calls in all, overlapping in
\* every possible way
NextPipe ==
    \E p \in Procs :
        \/ CallInit(p) \/ OneMain(p)
        \/ Stage(p) \/ Pipe(p) \/ SnowPipe(p)
        \/ CopyPut(p) \/ CopyLoad(p) \/ CopyRemove(p)
        \/ PipePut(p) \/ PipeNotify(p) \/ Backoff(p)

SpecPipe == InitPipe /\ [][NextPipe]_vars

\* C31: the transport is always one of none, insert, copy and pipe, and
\* main never binds the put strategy (insertWithPut), whatever the
\* configuration and the calls made.
C31_TransportValues ==
    /\ adapter.transport \in {"none", "insert", "copy", "pipe"}
    /\ \A p \in Procs :
          frames[p].op = "main" => frames[p].insertMethod # "insertWithPut"

C31_Witness ==
    \E p \in Procs :
        /\ Done(p) /\ frames[p].op = "main"
        /\ frames[p].insertMethod = "insertWithPipe"
        /\ adapter.transport = "pipe"

\* C32: while the table flag is true the transport is not none, and no main
\* call fails with 'Invalid transport method'.
C32_ReadyHasTransport ==
    /\ adapter.areTablesReady => adapter.transport # "none"
    /\ \A p \in Procs :
          (Done(p) /\ frames[p].op = "main")
          => frames[p].out.errorMessage # "Invalid transport method"

C32_Witness ==
    \E p \in Procs :
        /\ Done(p) /\ frames[p].op = "main"
        /\ every(frames[p].result)
        /\ frames[p].out.status = "success"
        /\ adapter.areTablesReady /\ adapter.transport = "insert"

\* C33: whenever the pipe strategy runs in a main call, the streaming-ingest
\* client has been created: a createSnowpipeConnection call has succeeded
\* before and the client handle is set.
C33_PipeHasClient ==
    \A p \in Procs :
        (frames[p].op = "main" /\ frames[p].pc \in {"pipe_put", "pipe_notify"})
        => adapter.snowpipeAPI

C33_Witness ==
    \E p, q \in Procs :
        /\ p # q
        /\ frames[p].op = "main" /\ frames[p].pc = "pipe_notify"
        /\ frames[q].pc = "done" /\ ~every(frames[q].result)
        /\ ~adapter.isSnowPipeReady /\ adapter.snowpipeAPI

\* C34: once the load statement of the copy strategy has succeeded, the
\* call returns a success result, whether or not the removal of the staged
\* file that follows succeeds.
C34_LoadedBatchSucceeds ==
    [][\A p \in Procs :
         (/\ Direct(p) /\ frames[p].insertMethod = "copyIntoData"
          /\ frames[p].pc = "copy_remove" /\ frames'[p].pc = "done")
         => /\ frames'[p].out.kind = "returned"
            /\ frames'[p].out.status = "success"]_vars

\* ----------------------------------------------------------------- logger
LOG_MAX_SIZE == 1000

\* how many entries the logger is followed for
MaxLogs == 1002

\* Array.prototype.slice(start): the elements from index start on, where a
\* fractional start is truncated
slice(list, twiceStart) ==
    SubSeq(list, (twiceStart \div 2) + 1, Len(list))

\* a log that keeps the oldest half of a full buffer
log_KeepOldest(lg, message, hasData, printThrows) ==
    LET lg0 == [lg EXCEPT !.last = message]
        trimmed == IF lg.cli_mode \/ message = Undefined
                   THEN message
                   ELSE Str(trim(message.cs))
        appended == IF isTruthy(trimmed)
                    THEN [lg0 EXCEPT !.logBuffer = Append(@, lg.pushed + 1),
                                     !.pushed = @ + 1]
                    ELSE lg0
    IN IF ~lg.logging THEN lg0
       ELSE IF lg.verbose /\ printThrows THEN lg0
       ELSE IF Len(appended.logBuffer) > LOG_MAX_SIZE
       THEN [appended EXCEPT !.logBuffer =
               SubSeq(@, 1, Len(appended.logBuffer) \div 2)]
       ELSE appended

\* log, lines 79-125; an entry is written as the number of the append that
\* made it
log(lg, message, hasData, printThrows) ==
    LET lg0 == [lg EXCEPT !.last = message]
        trimmed == IF lg.cli_mode \/ message = Undefined
                   THEN message
                   ELSE Str(trim(message.cs))
        appended == IF isTruthy(trimmed)
                    THEN [lg0 EXCEPT !.logBuffer = Append(@, lg.pushed + 1),
                                     !.pushed = @ + 1]
                    ELSE lg0
    IN IF ~lg.logging THEN lg0
       ELSE IF lg.verbose /\ printThrows THEN lg0
       ELSE IF Len(appended.logBuffer) > LOG_MAX_SIZE
       THEN [appended EXCEPT !.logBuffer =
               slice(@, Len(appended.logBuffer))]
       ELSE appended

\* log(message, ...data) is called, with no message, the empty string,
\* white space or a text
Log ==
    /\ logger.pushed < MaxLogs
    /\ \E message \in {Undefined, Str(<<>>), Str(<<" ">>), Str(<<"x">>)},
          hasData \in BOOLEAN, printThrows \in BOOLEAN :
         logger' = log(logger, message, hasData, printThrows)
    /\ UNCHANGED <<env, adapter, wh, frames, obs, hist, s3, shape>>

\* setVerbose, lines 16-18
SetVerbose ==
    /\ \E value \in BOOLEAN : logger' = [logger EXCEPT !.verbose = value]
    /\ UNCHANGED <<env, adapter, wh, frames, obs, hist, s3, shape>>

\* setCliMode, lines 20-23
SetCliMode ==
    /\ \E value \in BOOLEAN :
         logger' = [logger EXCEPT !.cli_mode = value, !.verbose = value]
    /\ UNCHANGED <<env, adapter, wh, frames, obs, hist, s3, shape>>

\* setLogging, lines 25-27
SetLogging ==
    /\ \E value \in BOOLEAN : logger' = [logger EXCEPT !.logging = value]
    /\ UNCHANGED <<env, adapter, wh, frames, obs, hist, s3, shape>>

InitLog ==
    /\ env = [snowflake_stage |-> FALSE, snowflake_pipe |-> FALSE,
              credentials |-> TRUE]
    /\ adapter = ReadyAdapter("insert")
    /\ wh = ProvisionedWarehouse
    /\ frames = [p \in Procs |-> IdleFrame]
    /\ obs = [p \in Procs |-> NoObs]
    /\ hist = [lastAllTrue |-> TRUE, firstBound |-> "none", dropped |-> FALSE,
               lastTablesFailed |-> FALSE]
    /\ s3 = [isClientReady |-> "undefined", canWriteToBucket |-> FALSE]
    /\ logger = FreshLogger
    /\ shape = NoShape

NextLog == Log \/ SetVerbose \/ SetCliMode \/ SetLogging

SpecLog == InitLog /\ [][NextLog]_vars

\* C35: the log buffer never holds more than 1000 entries and its entries
\* are in the order of their appends; an append that would make it exceed
\* 1000 drops the oldest half and keeps the rest; the buffer changes only by
\* a call made while logging is enabled with a message that is not empty.
C35_LogBufferBounded ==
    /\ [](/\ Len(logger.logBuffer) <= LOG_MAX_SIZE
          /\ \A i \in 1..(Len(logger.logBuffer) - 1) :
               logger.logBuffer[i + 1] = logger.logBuffer[i] + 1)
    /\ [][logger'.logBuffer # logger.logBuffer
          => /\ logger.logging
             /\ logger'.last \notin {Undefined, Str(<<>>)}
             /\ LET full == Append(logger.logBuffer, logger.pushed + 1)
                IN IF Len(logger.logBuffer) < LOG_MAX_SIZE
                   THEN logger'.logBuffer = full
                   ELSE logger'.logBuffer =
                          SubSeq(full, (Len(full) \div 2) + 1, Len(full))]_vars

C35_Witness ==
    /\ logger.pushed = LOG_MAX_SIZE + 1
    /\ Len(logger.logBuffer) = 501
    /\ logger.logBuffer[1] = 501
    /\ logger.logBuffer[501] = 1001

====
